---- MODULE Spec2Model ----
(***************************************************************************)
(* Offset and cursor pagination over the Post table, as served by the two  *)
(* Query resolvers of the tutorial's GraphQL schema.  The resolvers hand   *)
(* their arguments, after `|| undefined`, to Prisma Client's findMany; the *)
(* seed script and other clients create and delete posts meanwhile.        *)
(***************************************************************************)
EXTENDS Integers, Sequences, FiniteSets

(* ------------------------------- bounds -------------------------------- *)

\* ids 1..MaxId can be created by clients
MaxId == 4
\* largest skip / take / cursor a client of the general entry points passes
MaxSkip == 3
MaxTake == 3
MaxCursor == 6
\* creations and deletions in one behaviour
MaxMut == 1
\* creations and deletions in one behaviour of the page walk
MaxWalkMut == 2

(* ------------------------------- values -------------------------------- *)

\* ids of the posts created by prisma/seed.ts
SeedIds == {2, 5, 6, 9, 14, 16, 17}

\* Post.id Int @id @default(autoincrement()): ids clients create
Ids == 1..MaxId

\* an optional GraphQL / Prisma argument: <<>> is null or undefined, <<v>> is v
Absent == <<>>
Some(v) == <<v>>

SkipArgs == {Absent} \cup {Some(n) : n \in 0..MaxSkip}
TakeArgs == {Absent} \cup {Some(n) : n \in 0..MaxTake}
CursorArgs == {Absent} \cup {Some(n) : n \in 0..MaxCursor}

\* Prisma Client (3.1.1, as pinned) validates a unique input such as
\* cursor: { id } to hold at least this many defined fields, and rejects the
\* query otherwise
UniqueInputMinFields == 1

VARIABLES posts, nMut, last, ref, log, walk

vars == <<posts, nMut, last, ref, log, walk>>

(* ------------------------------ the engine ----------------------------- *)

\* `x ?? undefined`: only null and undefined give undefined
OrUndefinedNullish(a) == a

\* `x || undefined`: null, undefined and 0 are falsy
OrUndefined(a) == IF a = Absent \/ a = Some(0) THEN Absent ELSE a

RECURSIVE OrderByIdDesc(_)
\* the rows in descending id order
OrderByIdDesc(S) ==
  IF S = {} THEN <<>>
  ELSE LET m == CHOOSE x \in S : \A y \in S : x >= y
       IN <<m>> \o OrderByIdDesc(S \ {m})

RECURSIVE OrderById(_)
\* the rows of the table in ascending id order
OrderById(S) ==
  IF S = {} THEN <<>>
  ELSE LET m == CHOOSE x \in S : \A y \in S : x <= y
       IN <<m>> \o OrderById(S \ {m})

\* OFFSET n + 1
OffsetOneMore(s, n) ==
  IF n + 1 >= Len(s) THEN <<>> ELSE SubSeq(s, n + 2, Len(s))

\* OFFSET n
Offset(s, n) == IF n >= Len(s) THEN <<>> ELSE SubSeq(s, n + 1, Len(s))

\* LIMIT n + 1
LimitOneMore(s, n) == IF n + 1 >= Len(s) THEN s ELSE SubSeq(s, 1, n + 1)

\* LIMIT n
Limit(s, n) == IF n >= Len(s) THEN s ELSE SubSeq(s, 1, n)

\* findMany with the rows after the cursor row, the cursor row left out
findManyAfterCursor(db, skip, take, cursor) ==
  LET invalid == cursor # <<>> /\ Len(cursor[1].id) < UniqueInputMinFields
      anchored == cursor # <<>> /\ ~invalid
      rows == IF anchored
              THEN IF cursor[1].id[1] \in db
                   THEN {x \in db : x > cursor[1].id[1]}
                   ELSE {}
              ELSE db
      skipped == Offset(OrderById(rows), IF skip = Absent THEN 0 ELSE skip[1])
      taken == IF take = Absent THEN skipped ELSE Limit(skipped, take[1])
  IN IF invalid
     THEN [ok |-> FALSE, page |-> <<>>]
     ELSE [ok |-> TRUE, page |-> taken]

\* prisma.post.findMany({ skip, take, cursor }): skip and take are optional
\* numbers; cursor is <<>> when the key is missing and <<[id |-> a]>> for
\* cursor: { id: a }, where an undefined id counts as no field.  Rows come
\* in ascending id from the cursor row on (no row when the cursor row does
\* not exist), after skip rows, at most take.
findMany(db, skip, take, cursor) ==
  LET invalid == cursor # <<>> /\ Len(cursor[1].id) < UniqueInputMinFields
      anchored == cursor # <<>> /\ ~invalid
      rows == IF anchored
              THEN IF cursor[1].id[1] \in db
                   THEN {x \in db : x >= cursor[1].id[1]}
                   ELSE {}
              ELSE db
      skipped == Offset(OrderById(rows), IF skip = Absent THEN 0 ELSE skip[1])
      taken == IF take = Absent THEN skipped ELSE Limit(skipped, take[1])
  IN IF invalid
     THEN [ok |-> FALSE, page |-> <<>>]
     ELSE [ok |-> TRUE, page |-> taken]

(* ----------------------------- the resolvers --------------------------- *)

\* the resolver continuing after the last post of the response the client
\* holds, as a server that keeps its place between queries would
offsetPaginationResolveFromLast(db, skip, take) ==
  findMany(db, OrUndefined(skip), OrUndefined(take),
           IF last.page = <<>> THEN <<>>
           ELSE <<[id |-> Some(last.page[Len(last.page)])]>>)

\* the resolver without its skip argument
offsetPaginationResolveNoSkip(db, skip, take) ==
  findMany(db, Absent, OrUndefined(take), <<>>)

\* Query.offsetPagination.resolve
offsetPaginationResolve(db, skip, take) ==
  findMany(db, OrUndefined(skip), OrUndefined(take), <<>>)

\* the resolver without its cursor argument
cursorPaginationResolveNoCursor(db, skip, take, cursor) ==
  findMany(db, OrUndefined(skip), OrUndefined(take), <<>>)

\* the resolver without its skip argument, starting on the cursor post
cursorPaginationResolveNoSkip(db, skip, take, cursor) ==
  findMany(db, Absent, OrUndefined(take), <<[id |-> OrUndefined(cursor)]>>)

\* Query.cursorPagination.resolve
cursorPaginationResolve(db, skip, take, cursor) ==
  findMany(db, OrUndefined(skip), OrUndefined(take),
           <<[id |-> OrUndefined(cursor)]>>)

(* ------------------------------ the clients ---------------------------- *)

\* a response as its client sees it, with the query it answers
Response(op, via, skip, take, cursor, r) ==
  [op |-> op, via |-> via, skip |-> skip, take |-> take, cursor |-> cursor,
   ok |-> r.ok, page |-> r.page]

NoResponse ==
  [op |-> "none", via |-> "none", skip |-> Absent, take |-> Absent,
   cursor |-> Absent, ok |-> FALSE, page |-> <<>>]

NoWalk ==
  [active |-> FALSE, take |-> 0, skip |-> 0, returned |-> <<>>,
   stable |-> {}, created |-> {}, deleted |-> {}, done |-> FALSE]

\* the database is freshly seeded, or holds any posts with small ids
Init ==
  /\ posts \in (SUBSET Ids) \cup {SeedIds}
  /\ nMut = 0
  /\ last = NoResponse
  /\ ref = NoResponse
  /\ log = <<>>
  /\ walk = NoWalk

\* query { offsetPagination(skip, take) }, from a client that holds no
\* response
offsetPagination(skip, take) ==
  /\ last.op = "none"
  /\ ref.op = "none"
  /\ last' = Response("offsetPagination", "query", skip, take, Absent,
                      offsetPaginationResolve(posts, skip, take))
  /\ UNCHANGED <<posts, nMut, ref, log, walk>>

\* the query taking the cursor post off the table as it answers
cursorPaginationConsuming(skip, take, cursor) ==
  /\ last.op = "none"
  /\ ref.op = "none"
  /\ last' = Response("cursorPagination", "query", skip, take, cursor,
                      cursorPaginationResolve(posts, skip, take, cursor))
  /\ posts' = posts \ {cursor[i] : i \in 1..Len(cursor)}
  /\ UNCHANGED <<nMut, ref, log, walk>>

\* query { cursorPagination(skip, take, cursor) }, from a client that holds
\* no response
cursorPagination(skip, take, cursor) ==
  /\ last.op = "none"
  /\ ref.op = "none"
  /\ last' = Response("cursorPagination", "query", skip, take, cursor,
                      cursorPaginationResolve(posts, skip, take, cursor))
  /\ UNCHANGED <<posts, nMut, ref, log, walk>>

\* a client creates a post (posts: { create: [{ id, ... }] }); responses
\* received before it are no longer current
createPost(id) ==
  /\ id \notin posts
  /\ posts' = posts \cup {id}
  /\ nMut' = nMut + 1
  /\ last' = NoResponse
  /\ log' = IF ref.op = "none" THEN log
            ELSE Append(log, [kind |-> "create", id |-> id])
  /\ walk' = IF walk.active
             THEN [walk EXCEPT !.created = @ \cup {id}]
             ELSE walk
  /\ UNCHANGED ref

\* a client deletes a post
deletePost(id) ==
  /\ id \in posts
  /\ posts' = posts \ {id}
  /\ nMut' = nMut + 1
  /\ last' = NoResponse
  /\ log' = IF ref.op = "none" THEN log
            ELSE Append(log, [kind |-> "delete", id |-> id])
  /\ walk' = IF walk.active
             THEN [walk EXCEPT !.deleted = @ \cup {id}, !.stable = @ \ {id}]
             ELSE walk
  /\ UNCHANGED ref

\* the client drops the response it holds
Release ==
  /\ last.op # "none"
  /\ ref.op = "none"
  /\ last' = NoResponse
  /\ UNCHANGED <<posts, nMut, ref, log, walk>>

\* the client keeps the page it just received
Remember ==
  /\ last.op # "none"
  /\ ref.op = "none"
  /\ ref' = last
  /\ log' = <<>>
  /\ UNCHANGED <<posts, nMut, last, walk>>

\* the client sends the query of the kept page again
Refetch ==
  /\ ref.op # "none"
  /\ last' = IF ref.op = "offsetPagination"
             THEN Response(ref.op, "refetch", ref.skip, ref.take, Absent,
                    offsetPaginationResolve(posts, ref.skip, ref.take))
             ELSE Response(ref.op, "refetch", ref.skip, ref.take, ref.cursor,
                    cursorPaginationResolve(posts, ref.skip, ref.take,
                                            ref.cursor))
  /\ UNCHANGED <<posts, nMut, ref, log, walk>>

\* the client asks for the page after the kept one: cursor is the id of the
\* kept page's last post, skip is 1, take as before
NextPage ==
  /\ ref.op # "none"
  /\ ref.ok
  /\ ref.page # <<>>
  /\ last' = Response("cursorPagination", "next", Some(1), ref.take,
                      Some(ref.page[Len(ref.page)]),
                      cursorPaginationResolve(posts, Some(1), ref.take,
                                              Some(ref.page[Len(ref.page)])))
  /\ UNCHANGED <<posts, nMut, ref, log, walk>>

\* a client starts to walk the table in pages of n posts by offset
WalkStart(n) ==
  /\ ~walk.active
  /\ LET r == offsetPaginationResolve(posts, Some(0), Some(n))
     IN walk' = [active |-> TRUE, take |-> n, skip |-> n,
                 returned |-> r.page, stable |-> posts, created |-> {},
                 deleted |-> {}, done |-> Len(r.page) < n]
  /\ UNCHANGED <<posts, nMut, last, ref, log>>

\* the walking client asks for the next page, skip grown by the page size;
\* a page shorter than the page size ends the walk
WalkNext ==
  /\ walk.active
  /\ ~walk.done
  /\ LET r == offsetPaginationResolve(posts, Some(walk.skip), Some(walk.take))
     IN walk' = [walk EXCEPT !.skip = @ + walk.take,
                             !.returned = @ \o r.page,
                             !.done = Len(r.page) < walk.take]
  /\ UNCHANGED <<posts, nMut, last, ref, log>>

\* the paging client asks for the page after the last one: cursor is the id
\* of the last post it received, skip is 1, take the page size; a page
\* shorter than the page size ends the paging
PagingNext ==
  /\ walk.active
  /\ ~walk.done
  /\ LET r == cursorPaginationResolve(posts, Some(1), Some(walk.take),
                    Some(walk.returned[Len(walk.returned)]))
     IN walk' = [walk EXCEPT !.returned = @ \o r.page,
                             !.done = Len(r.page) < walk.take]
  /\ UNCHANGED <<posts, nMut, last, ref, log>>

Next ==
  \/ \E skip \in SkipArgs, take \in TakeArgs : offsetPagination(skip, take)
  \/ \E skip \in SkipArgs, take \in TakeArgs, cursor \in CursorArgs :
       cursorPagination(skip, take, cursor)
  \/ nMut < MaxMut /\ \E id \in Ids : createPost(id)
  \/ nMut < MaxMut /\ \E id \in posts : deletePost(id)
  \/ Release
  \/ Remember
  \/ Refetch
  \/ NextPage

Spec == Init /\ [][Next]_vars

NextWalk ==
  \/ \E n \in 1..MaxTake : WalkStart(n)
  \/ WalkNext
  \/ nMut < MaxWalkMut /\ \E id \in Ids : createPost(id)
  \/ nMut < MaxWalkMut /\ \E id \in posts : deletePost(id)

SpecWalk == Init /\ [][NextWalk]_vars

\* the tutorial's protocol on a table nobody changes: the first page by
\* offset, every further page by cursor, until a short page
NextPaging ==
  \/ \E n \in 1..MaxTake : WalkStart(n)
  \/ PagingNext

\* the paging client keeps asking until a short page arrives
SpecPaging == Init /\ [][NextPaging]_vars /\ WF_vars(PagingNext)

(* ------------------------------ properties ----------------------------- *)

\* number of posts of db before id in ascending id order
Rank(db, id) == Cardinality({x \in db : x < id})

Range(s) == {s[i] : i \in 1..Len(s)}

Ascending(s) == \A i \in 1..(Len(s) - 1) : s[i] < s[i + 1]

\* the value of an optional number, 0 when it is absent
ValueOr0(a) == IF a = Absent THEN 0 ELSE a[1]

\* C1: offsetPagination(skip, take) with skip >= 0 and take >= 1 returns, in
\* ascending id order, exactly the posts of rank skip .. skip + take - 1 of
\* the whole table; on the seeded table skip 0 take 3 gives [2,5,6] and skip 3
\* take 3 gives [9,14,16].
C1_OffsetPageIsRankWindow ==
  (/\ last.op = "offsetPagination"
   /\ last.skip # Absent
   /\ last.take # Absent
   /\ last.take[1] >= 1)
  => /\ last.ok
     /\ Ascending(last.page)
     /\ Range(last.page) =
          {x \in posts : /\ last.skip[1] <= Rank(posts, x)
                         /\ Rank(posts, x) < last.skip[1] + last.take[1]}
     /\ (posts = SeedIds /\ last.skip = Some(0) /\ last.take = Some(3))
          => last.page = <<2, 5, 6>>
     /\ (posts = SeedIds /\ last.skip = Some(3) /\ last.take = Some(3))
          => last.page = <<9, 14, 16>>

C1_Witness ==
  /\ last.op = "offsetPagination"
  /\ posts = SeedIds
  /\ last.skip = Some(3)
  /\ last.take = Some(3)
  /\ last.page = <<9, 14, 16>>

\* C2: cursorPagination(skip, take, cursor) with cursor the id of a post and
\* take >= 1 counts the cursor post as position 0, skips skip posts from it
\* (none when skip is 0 or absent) and returns the next take posts in
\* ascending id order; on the seeded table skip 1 take 3 cursor 6 gives
\* [9,14,16].
C2_CursorPageIsWindowFromCursor ==
  (/\ last.op = "cursorPagination"
   /\ last.cursor # Absent
   /\ last.cursor[1] \in posts
   /\ last.take # Absent
   /\ last.take[1] >= 1)
  => LET c == last.cursor[1]
         s == ValueOr0(last.skip)
         pos(x) == Cardinality({y \in posts : c <= y /\ y < x})
     IN /\ last.ok
        /\ Ascending(last.page)
        /\ Range(last.page) =
             {x \in posts : x >= c /\ s <= pos(x) /\ pos(x) < s + last.take[1]}
        /\ s = 0 => last.page[1] = c
        /\ (s = 1 /\ last.page # <<>>)
             => /\ last.page[1] > c
                /\ \A y \in posts : ~(c < y /\ y < last.page[1])
        /\ (posts = SeedIds /\ s = 1 /\ last.take = Some(3) /\ c = 6)
             => last.page = <<9, 14, 16>>

C2_Witness ==
  /\ last.op = "cursorPagination"
  /\ posts = SeedIds
  /\ last.skip = Some(1)
  /\ last.take = Some(3)
  /\ last.cursor = Some(6)
  /\ last.page = <<9, 14, 16>>

\* C3: a page is never longer than the take of its query, for every
\* take >= 0.
C3_PageAtMostTake ==
  (last.op # "none" /\ last.take # Absent)
  => Len(last.page) <= last.take[1]

\* C4: cursorPagination with a cursor that is the id of no post returns the
\* empty page and no error, whatever skip and take are.
C4_UnknownCursorGivesEmptyPage ==
  (/\ last.op = "cursorPagination"
   /\ last.cursor # Absent
   /\ last.cursor[1] \notin posts)
  => last.ok /\ last.page = <<>>

\* C5: when only posts with ids below the cursor were created or deleted
\* since a cursorPagination query, and the cursor post exists, the same query
\* returns the same page.
C5_CursorPageStableUnderEarlierChanges ==
  (/\ last.via = "refetch"
   /\ ref.op = "cursorPagination"
   /\ ref.cursor # Absent
   /\ ref.cursor[1] \in posts
   /\ \A i \in 1..Len(log) : log[i].id < ref.cursor[1])
  => last.ok = ref.ok /\ last.page = ref.page

C5_Witness ==
  /\ last.via = "refetch"
  /\ ref.op = "cursorPagination"
  /\ ref.cursor # Absent
  /\ ref.cursor[1] \in posts
  /\ log # <<>>
  /\ \A i \in 1..Len(log) : log[i].id < ref.cursor[1]
  /\ ValueOr0(ref.skip) = 1
  /\ ref.page # <<>>
  /\ last.page = ref.page

\* the id of the last post of the kept page
LastId == ref.page[Len(ref.page)]

\* the next page was fetched after posts with ids above the kept page's last
\* id were created, and nothing else changed
CreatedAfterLastId ==
  /\ last.via = "next"
  /\ log # <<>>
  /\ \A i \in 1..Len(log) : log[i].kind = "create" /\ log[i].id > LastId

\* C6 as stated: the next page after such a creation includes the new post.
C6_NextPageIncludesNewPost ==
  CreatedAfterLastId
  => \A i \in 1..Len(log) : log[i].id \in Range(last.page)

\* C6: the next page after such a creation includes the new post exactly
\* when fewer than take posts lie between the kept page's last id and the new
\* id (always, when take is 0 or absent).
C6_NextPageIncludesNewPostWithinTake ==
  CreatedAfterLastId
  => /\ last.ok
     /\ \A i \in 1..Len(log) :
          log[i].id \in Range(last.page)
          <=> \/ OrUndefined(ref.take) = Absent
              \/ Cardinality({x \in posts : LastId < x /\ x < log[i].id})
                   < ref.take[1]

C6_Witness ==
  /\ CreatedAfterLastId
  /\ ref.take # Absent
  /\ ref.take[1] >= 1
  /\ log[1].id \in Range(last.page)

\* a post was returned on two pages of the walk
WalkDup ==
  \E i, j \in 1..Len(walk.returned) : i < j /\ walk.returned[i] = walk.returned[j]

\* posts that existed throughout the finished walk and were on none of its
\* pages
WalkMissed ==
  IF walk.done THEN {x \in walk.stable : x \notin Range(walk.returned)} ELSE {}

\* C7: an offset walk can return a post twice and can finish without
\* returning a post that existed throughout; it returns a post twice only
\* after a post with a smaller id was created during the walk, and it misses
\* a post only after a post with a smaller id was deleted during the walk.
C7_OffsetWalkAnomaliesNeedChanges ==
  walk.active
  => /\ \A i, j \in 1..Len(walk.returned) :
          (i < j /\ walk.returned[i] = walk.returned[j])
          => \E c \in walk.created : c < walk.returned[i]
     /\ \A x \in WalkMissed : \E d \in walk.deleted : d < x

C7_Witness ==
  /\ walk.done
  /\ WalkDup
  /\ WalkMissed # {}

\* C8: every page lists its posts in strictly ascending id order, so no id
\* twice.
C8_PageStrictlyAscending ==
  last.op # "none" => Ascending(last.page)

C8_Witness ==
  /\ last.op = "cursorPagination"
  /\ last.skip = Absent
  /\ last.take = Absent
  /\ Len(last.page) >= 3

\* C9: cursorPagination without cursor answers as offsetPagination with the
\* same skip and take.
C9_NoCursorIsOffsetMode ==
  (last.op = "cursorPagination" /\ last.cursor = Absent)
  => LET r == offsetPaginationResolve(posts, last.skip, last.take)
     IN last.ok = r.ok /\ last.page = r.page

C11_QueriesChangeNoPost ==
  [][(last' # last /\ last'.op # "none")
       => (posts' = posts /\ nMut' = nMut)]_vars

C11_Witness ==
  /\ last.op = "cursorPagination"
  /\ last.via = "query"
  /\ last.cursor = Some(5)
  /\ last.page # <<>>
  /\ posts = SeedIds

\* the response the same query gets when its take is left out
TakeOmitted ==
  IF last.op = "offsetPagination"
  THEN offsetPaginationResolve(posts, last.skip, Absent)
  ELSE cursorPaginationResolve(posts, last.skip, Absent, last.cursor)

\* C12: with take = 0 either entry point answers as with take left out; the
\* page is every post from the start position on (rank skip of the table in
\* offset mode, position skip counted from an existing cursor post in cursor
\* mode), not the empty page.
C12_TakeZeroIsNoLimit ==
  (last.op # "none" /\ last.take = Some(0))
  => LET s == ValueOr0(last.skip)
     IN /\ last.ok = TakeOmitted.ok
        /\ last.page = TakeOmitted.page
        /\ Ascending(last.page)
        /\ last.op = "offsetPagination"
             => /\ last.ok
                /\ Range(last.page) = {x \in posts : Rank(posts, x) >= s}
        /\ (/\ last.op = "cursorPagination"
            /\ last.cursor # Absent
            /\ last.cursor[1] \in posts)
             => /\ last.ok
                /\ Range(last.page) =
                     {x \in posts :
                        /\ x >= last.cursor[1]
                        /\ Cardinality({y \in posts :
                                          last.cursor[1] <= y /\ y < x}) >= s}

C12_Witness ==
  /\ last.op = "cursorPagination"
  /\ last.take = Some(0)
  /\ last.skip = Some(1)
  /\ last.cursor = Some(5)
  /\ last.page = <<6, 9, 14, 16, 17>>

\* C13: on one table the two modes agree: when the cursor post has rank r,
\* cursorPagination(skip s, take t, cursor) with t >= 1 returns the page of
\* offsetPagination(skip r + s, take t).
C13_CursorPageIsOffsetPageAtRank ==
  (/\ last.op = "cursorPagination"
   /\ last.cursor # Absent
   /\ last.cursor[1] \in posts
   /\ last.take # Absent
   /\ last.take[1] >= 1)
  => LET r == Rank(posts, last.cursor[1])
         o == offsetPaginationResolve(posts, Some(r + ValueOr0(last.skip)),
                                      last.take)
     IN last.ok = o.ok /\ last.page = o.page

C13_Witness ==
  /\ last.op = "cursorPagination"
  /\ posts = SeedIds
  /\ last.cursor = Some(5)
  /\ last.skip = Some(2)
  /\ last.take = Some(2)
  /\ last.page = <<9, 14>>
  /\ last.page = offsetPaginationResolve(posts, Some(3), Some(2)).page

\* C14: on a table nobody changes, paging with offsetPagination(skip 0,
\* take n) and then cursorPagination(skip 1, take n, cursor = last id
\* received) until a page shorter than n comes to an end, and the pages put
\* together list every post of the table once, in ascending id order.
C14_PagingListsTableOnce ==
  /\ [](walk.done
         => /\ Ascending(walk.returned)
            /\ Range(walk.returned) = posts)
  /\ (walk.active ~> walk.done)

C14_Witness ==
  /\ walk.done
  /\ posts = SeedIds
  /\ walk.take = 3
  /\ walk.returned = <<2, 5, 6, 9, 14, 16, 17>>

====
